---- MODULE Spec2Model ----
(***************************************************************************)
(* hasscomfoair: bridge between a ComfoAir ventilation unit (serial) and   *)
(* MQTT.  The model follows src/hasscomfoair.py:                           *)
(*   - ComfoAirHandler: the per-handler cache, the device-event listeners  *)
(*     (event, temp_outside_event, airflow_exhaust, airflow_supply,        *)
(*     fan_speed_mode, cooked_event) and the inbound command handlers      *)
(*     (handle_set_speed, handle_set_fan_state);                           *)
(*   - mqtt_connection: the supervisor loop with its awaited steps;        *)
(*   - decode_display_data: the display-frame decoder.                     *)
(* Two cooperative tasks are modelled: the supervisor (mqtt_connection and *)
(* the inbound loop it awaits) and the device task that awaits one         *)
(* listener at a time.  A task gives up control only at an await, so every *)
(* action runs from one suspension point to the next.                      *)
(* The collaborators (comfoair.asyncio.ComfoAir, asyncio_mqtt.Client) are  *)
(* outside the repository: publish, connect, subscribe and the message     *)
(* iteration either return or raise MqttError; add/remove listener are     *)
(* set insertion and removal; set_speed returns.                           *)
(***************************************************************************)
EXTENDS Integers, Sequences, FiniteSets, TLC

\* Bound on the number of MqttErrors the supervisor handles in one behaviour.
MaxFails == 2

\* ---------------------------------------------------------------- topics
TOPIC_TEMP_OUTSIDE == "comfoair/temp/outside"
TOPIC_AIRFLOW_EXHAUST == "comfoair/airflow/exhaust"
TOPIC_AIRFLOW_SUPPLY == "comfoair/airflow/supply"
TOPIC_FAN_SPEED == "comfoair/fan/speed"
TOPIC_FAN_STATE == "comfoair/fan/state"
TOPIC_AVAILABILITY == "comfoair/LWT"
TOPIC_SET_FAN_SPEED == "comfoair/fan/speed/set"
TOPIC_SET_FAN_STATE == "comfoair/fan/state/set"

\* ------------------------------------------------------ ComfoAirHandler
SPEED_VALUES == <<"auto", "off", "low", "medium", "high">>
STATE_VALUES == <<"on", "off">>

\* x in seq, as Python's `in` on a list
InList(x, seq) == \E i \in 1..Len(seq) : seq[i] = x

\* list.index(x): 0-based position of the first occurrence
IndexOf(x, seq) == (CHOOSE i \in 1..Len(seq) : seq[i] = x /\ \A j \in 1..(i-1) : seq[j] # x) - 1

\* SPEED_VALUES[value] with Python's list indexing: a negative index counts
\* from the end, an index outside -len..len-1 raises IndexError.
SpeedLookup(value) ==
    IF value >= 0 /\ value < Len(SPEED_VALUES) THEN SPEED_VALUES[value + 1]
    ELSE IF value < 0 /\ value >= -Len(SPEED_VALUES) THEN SPEED_VALUES[Len(SPEED_VALUES) + value + 1]
    ELSE "IndexError"

\* dict.get on an absent key gives None
None == "None"

\* Variant of PrevWasOff: level-triggered, any cached speed counts as off.
PrevWasOff_Level(speed) == TRUE

\* `not speed or speed == "off"` (lines 173 and 200): None is falsy, every
\* cached speed is a non-empty string.
PrevWasOff(speed) == speed = None \/ speed = "off"

\* ------------------------------------------------- decode_display_data
cc_segments == <<
    <<"Sa", "Su", "Mo", "Tu", "We", "Th", "Fri", ":">>,
    <<"1ADEG", "1B", "1C", "AUTO", "MANUAL", "FILTER", "I", "E">>,
    <<"2A", "2B", "2C", "2D", "2E", "2F", "2G", "Ventilation">>,
    <<"3A", "3B", "3C", "3D", "3E", "3F", "3G", "Extractor hood">>,
    <<"4A", "4B", "4C", "4D", "4E", "4F", "4G", "Pre-heater">>,
    <<"5A", "5B", "5C", "5D", "5E", "5F", "5G", "Frost">>,
    <<"6A", "6B", "6C", "6D", "6E", "6F", "6G", "EWT">>,
    <<"7A", "7B", "7C", "7D", "7E", "7F", "7G", "Post-heater">>,
    <<"8A", "8B", "8C", "8D", "8E", "8F", "8G", ".">>,
    <<"deg", "Bypass", "9AEF", "9G", "9D", "House", "Supply air", "Exhaust air">> >>

\* ssd_chr: seven-segment pattern -> character
ssd_chr ==
    (0 :> " ") @@ (63 :> "0") @@ (6 :> "1") @@ (91 :> "2") @@ (79 :> "3") @@
    (102 :> "4") @@ (109 :> "5") @@ (125 :> "6") @@ (7 :> "7") @@ (127 :> "8") @@
    (111 :> "9") @@ (119 :> "A") @@ (124 :> "B") @@ (57 :> "C") @@ (94 :> "D") @@
    (121 :> "E") @@ (113 :> "F")

\* val & (1 << i), as 0 or 1
Bit(val, i) == (val \div (2 ^ i)) % 2

\* The digit pattern computed for the cell at 0-based position pos (1..9).
\* The or-ed masks never overlap the bits already set, so | is +.
DigitAt(pos, val) ==
    IF pos = 1 THEN (2 * Bit(val, 1)) + (4 * Bit(val, 2)) + (IF Bit(val, 0) = 1 THEN 89 ELSE 0)
    ELSE IF pos >= 2 /\ pos <= 8 THEN val % 128
    ELSE (IF Bit(val, 2) = 1 THEN 49 ELSE 0) + (IF Bit(val, 3) = 1 THEN 64 ELSE 0)
         + (IF Bit(val, 4) = 1 THEN 8 ELSE 0)

\* first bit the trailing loop `for i in range(offset, 8)` looks at
OffsetAt(pos) == IF pos = 1 THEN 3 ELSE IF pos >= 2 /\ pos <= 8 THEN 7 ELSE IF pos = 9 THEN 8 ELSE 0

RECURSIVE LitLabels(_, _, _)
\* labels of the bits of val that are set, over the bit indices idxs, in order
LitLabels(pos, val, idxs) ==
    IF idxs = <<>> THEN <<>>
    ELSE (IF Bit(val, Head(idxs)) = 1 THEN <<cc_segments[pos + 1][Head(idxs) + 1]>> ELSE <<>>)
         \o LitLabels(pos, val, Tail(idxs))

\* range(offset, 8) as a sequence
BitRange(offset) == [k \in 1..(8 - offset) |-> offset + k - 1]

\* what one iteration of the loop appends for cell pos
CellLabels(pos, val) ==
    (IF pos >= 1 /\ pos <= 9 THEN <<ssd_chr[DigitAt(pos, val)]>> ELSE <<>>)
    \o (IF pos = 9 THEN LitLabels(pos, val, <<0, 1, 5, 6, 7>>) ELSE <<>>)
    \o LitLabels(pos, val, BitRange(OffsetAt(pos)))

\* `assert digit in ssd_chr` fails for cell pos
CellAsserts(pos, val) == pos >= 1 /\ pos <= 9 /\ DigitAt(pos, val) \notin DOMAIN ssd_chr

RECURSIVE JoinCells(_, _)
JoinCells(data, n) ==
    IF n = 0 THEN <<>> ELSE JoinCells(data, n - 1) \o CellLabels(n - 1, data[n])

\* Variant of decode_display_data: the cells are decoded before the length is
\* compared with the table's.
decode_display_data_AssertFirst(data) ==
    IF \E n \in 1..Len(data) : n <= Len(cc_segments) /\ CellAsserts(n - 1, data[n])
    THEN [status |-> "assert", segments |-> <<>>]
    ELSE IF Len(cc_segments) # Len(data) THEN [status |-> "skip", segments |-> <<>>]
         ELSE [status |-> "ok", segments |-> JoinCells(data, Len(data))]

\* decode_display_data(data): "skip" when the length differs from the table's,
\* "assert" when an assertion fails (AssertionError propagates to the caller),
\* otherwise "ok" with the logged label sequence.
decode_display_data(data) ==
    IF Len(cc_segments) # Len(data) THEN [status |-> "skip", segments |-> <<>>]
    ELSE IF \E n \in 1..Len(data) : CellAsserts(n - 1, data[n])
         THEN [status |-> "assert", segments |-> <<>>]
         ELSE [status |-> "ok", segments |-> JoinCells(data, Len(data))]

\* ----------------------------------------------------------- the state
\* Handler objects are numbered in the order mqtt_connection creates them.
Handlers == 1..(MaxFails + 1)

\* command byte of a display frame (`if cmd == 0x3c`)
CMD_DISPLAY == 60
\* the command bytes delivered: the display's and one other (0x0c)
Cmds == {CMD_DISPLAY, 12}

\* Raw frame payloads: a blank display, a display whose cell 2 holds a
\* pattern that is no character, a short frame of another command.
FrameBlank == <<0, 0, 0, 0, 0, 0, 0, 0, 0, 0>>
FrameBadDigit == <<0, 0, 1, 0, 0, 0, 0, 0, 0, 0>>
FrameShort == <<6>>
\* the frames delivered with each command byte
Frames(command) == IF command = CMD_DISPLAY THEN {FrameBlank, FrameBadDigit} ELSE {FrameShort}

\* raw FAN_SPEED_MODE values the device task delivers
RawSpeeds == (0 - 1)..5
\* values of the other cooked attributes: temperatures, airflow percentages
TempValues == {19, 21}
AirflowValues == {45}

\* payloads arriving on the command topics
Payloads == {"auto", "off", "low", "medium", "high", "on", "bogus"}

\* ComfoAirHandler._cache: the dict's keys are the command bytes, "speed" and
\* "state"; raw[c] is <<>> when the key c is absent and <<data>> otherwise.
EmptyCache == [speed |-> None, state |-> None, raw |-> [c \in Cmds |-> <<>>]]

\* one MQTT publication
Pub(topic, payload, retain) == [topic |-> topic, payload |-> payload, retain |-> retain]

\* one step of a connection attempt
Step(op, topic, payload, retain) == [op |-> op, topic |-> topic, payload |-> payload, retain |-> retain]

\* the device task between two listener calls, before any event
NoInvocation ==
    [h |-> 0, kind |-> "none", pc |-> "idle", num |-> 0, data |-> <<>>, speed |-> "",
     preSpeed |-> None, preState |-> None, logged |-> FALSE,
     dec |-> "", out |-> <<>>, res |-> "ok"]

\* the inbound loop before any message
NoCommand == [topic |-> "", payload |-> "", calls |-> <<>>]

VARIABLES
    pc,        \* mqtt_connection: the await it is suspended at
    h,         \* mqtt_connection's local h: the current handler (0: None)
    attached,  \* handlers whose listeners are registered with the ComfoAir object
    cache,     \* cache[x]: handler x's _cache
    fails,     \* MqttErrors handled so far
    alog,      \* the steps completed in the current attempt, in order
    inv,       \* the device task: the listener call in progress, or the one that
               \* ended last if nothing was dispatched since
    cmd        \* the inbound command dispatched last in this attempt, with the
               \* set_speed calls it made, if the device task did not run since

vars == <<pc, h, attached, cache, fails, alog, inv, cmd>>

Init ==
    /\ pc = "top"
    /\ h = 0
    /\ attached = {}
    /\ cache = [x \in Handlers |-> EmptyCache]
    /\ fails = 0
    /\ alog = <<>>
    /\ inv = NoInvocation
    /\ cmd = NoCommand

\* Handlers still referenced: mqtt_connection's h and the self of the listener
\* call that inv records.  The cache of any other handler is garbage.
Live(hh, iv) == {hh, iv.h}

Collect(c, live) == [x \in Handlers |-> IF x \in live THEN c[x] ELSE EmptyCache]

\* inv and cmd record the last operation only: the record of a listener call
\* that has ended is dropped when the supervisor handles an error, begins a
\* new attempt or dispatches a command.
Forget(iv) == IF iv.pc = "idle" THEN NoInvocation ELSE iv

\* ------------------------------------------------------ mqtt_connection
\* Variant of RaiseMqttError: the listeners stay registered.
RaiseMqttError_KeepListeners ==
    /\ fails < MaxFails
    /\ fails' = fails + 1
    /\ pc' = "sleep"
    /\ inv' = Forget(inv)
    /\ cache' = Collect(cache, Live(h, inv'))
    /\ cmd' = NoCommand
    /\ UNCHANGED <<h, attached, alog>>

\* `except MqttError` (lines 329-332): remove_ca_listeners(ca, h), then the
\* await of asyncio.sleep(reconnect_interval).  The raise, the except clause
\* and the removal run without an await in between.
RaiseMqttError ==
    /\ fails < MaxFails
    /\ fails' = fails + 1
    /\ attached' = attached \ {h}
    /\ pc' = "sleep"
    /\ inv' = Forget(inv)
    /\ cache' = Collect(cache, Live(h, inv'))
    /\ cmd' = NoCommand
    /\ UNCHANGED <<h, alog>>

\* Variant of Begin: the loop is left after the backoff wait.
Begin_NoRetry ==
    /\ pc = "top"
    /\ h + 1 \in Handlers
    /\ h' = h + 1
    /\ inv' = Forget(inv)
    /\ cache' = Collect([cache EXCEPT ![h + 1] = EmptyCache], Live(h + 1, inv'))
    /\ alog' = <<Step("will_set", TOPIC_AVAILABILITY, "Offline", TRUE)>>
    /\ pc' = "connect"
    /\ cmd' = NoCommand
    /\ UNCHANGED <<attached, fails>>

\* Variant of Begin: the handler is created once and kept across attempts.
Begin_KeepHandler ==
    /\ pc \in {"top", "sleep"}
    /\ h' = IF h = 0 THEN 1 ELSE h
    /\ inv' = Forget(inv)
    /\ cache' = Collect(cache, Live(h', inv'))
    /\ alog' = <<Step("will_set", TOPIC_AVAILABILITY, "Offline", TRUE)>>
    /\ pc' = "connect"
    /\ cmd' = NoCommand
    /\ UNCHANGED <<attached, fails>>

\* Top of `while True` (lines 313-322): a new Client, a new ComfoAirHandler
\* with an empty _cache, will_set, and the call of mqtt.connect().
Begin ==
    /\ pc \in {"top", "sleep"}
    /\ h + 1 \in Handlers
    /\ h' = h + 1
    /\ inv' = Forget(inv)
    /\ cache' = Collect([cache EXCEPT ![h + 1] = EmptyCache], Live(h + 1, inv'))
    /\ alog' = <<Step("will_set", TOPIC_AVAILABILITY, "Offline", TRUE)>>
    /\ pc' = "connect"
    /\ cmd' = NoCommand
    /\ UNCHANGED <<attached, fails>>

\* Variant of Connect: the listeners are registered as soon as the
\* transport is connected.
Connect_AttachEarly ==
    /\ pc = "connect"
    /\ \/ /\ alog' = Append(alog, Step("connect", "", "", FALSE))
          /\ attached' = attached \cup {h}
          /\ pc' = "cfg1"
          /\ UNCHANGED <<h, cache, fails, inv, cmd>>
       \/ RaiseMqttError

\* await mqtt.connect() (line 322)
Connect ==
    /\ pc = "connect"
    /\ \/ /\ alog' = Append(alog, Step("connect", "", "", FALSE))
          /\ pc' = "cfg1"
          /\ UNCHANGED <<h, attached, cache, fails, inv, cmd>>
       \/ RaiseMqttError

\* send_ha_config: the four discovery documents, in the order published
HA_CONFIG == <<
    [topic |-> "homeassistant/fan/ComfoAir/config", payload |-> "json(fan)"],
    [topic |-> "homeassistant/sensor/ComfoAir_temp/config", payload |-> "json(temp_outside_sensor)"],
    [topic |-> "homeassistant/sensor/ComfoAir_airflow_supply/config", payload |-> "json(airflow_supply)"],
    [topic |-> "homeassistant/sensor/ComfoAir_airflow_exhaust/config", payload |-> "json(airflow_exhaust)"] >>

CfgPc == <<"cfg1", "cfg2", "cfg3", "cfg4">>

\* the i-th await mqtt.publish of send_ha_config (lines 269-272)
send_ha_config(i) ==
    /\ pc = CfgPc[i]
    /\ \/ /\ alog' = Append(alog, Step("publish", HA_CONFIG[i].topic, HA_CONFIG[i].payload, FALSE))
          /\ pc' = IF i < Len(CfgPc) THEN CfgPc[i + 1] ELSE "online"
          /\ UNCHANGED <<h, attached, cache, fails, inv, cmd>>
       \/ RaiseMqttError

\* add_ca_listeners(ca, h) (lines 275-284): the nine registrations, no await
add_ca_listeners(set, x) == set \cup {x}

\* await mqtt.publish(TOPIC_AVAILABILITY, "Online", retain=True) (line 324);
\* on return add_ca_listeners and the entry of handle_mqtt_message up to its
\* first await, the first subscribe (lines 325-327, 298-300).
Online ==
    /\ pc = "online"
    /\ \/ /\ alog' = alog \o <<Step("publish", TOPIC_AVAILABILITY, "Online", TRUE),
                               Step("add_ca_listeners", "", "", FALSE)>>
          /\ attached' = add_ca_listeners(attached, h)
          /\ pc' = "sub1"
          /\ UNCHANGED <<h, cache, fails, inv, cmd>>
       \/ RaiseMqttError

\* the handlers dict of line 327, in its insertion order
CommandTopics == <<TOPIC_SET_FAN_SPEED, TOPIC_SET_FAN_STATE>>

SubPc == <<"sub1", "sub2">>

\* `for topic in handlers.keys(): await mqtt.subscribe(topic)` (lines 299-300)
Subscribe(i) ==
    /\ pc = SubPc[i]
    /\ \/ /\ alog' = Append(alog, Step("subscribe", CommandTopics[i], "", FALSE))
          /\ pc' = IF i < Len(SubPc) THEN SubPc[i + 1] ELSE "loop"
          /\ UNCHANGED <<h, attached, cache, fails, inv, cmd>>
       \/ RaiseMqttError

\* Variant of handle_set_speed: the position test reads `pos >= 0`.
handle_set_speed_FromZero(value) ==
    IF ~InList(value, SPEED_VALUES) THEN <<>>
    ELSE LET pos == IndexOf(value, SPEED_VALUES)
         IN IF pos >= 0 /\ pos <= 4 THEN <<pos>> ELSE <<>>

\* handle_set_speed(value, ca): the set_speed calls it makes
handle_set_speed(value) ==
    IF ~InList(value, SPEED_VALUES) THEN <<>>
    ELSE LET pos == IndexOf(value, SPEED_VALUES)
         IN IF pos >= 1 /\ pos <= 4 THEN <<pos>> ELSE <<>>

\* Variant of handle_set_fan_state: "on" does not look at the cached speed.
handle_set_fan_state_Always(value, speed) ==
    IF ~InList(value, STATE_VALUES) THEN <<>>
    ELSE IF value = "off" THEN <<1>>
    ELSE <<2>>

\* handle_set_fan_state(value, ca) on a handler whose cached speed is speed:
\* the set_speed calls it makes
handle_set_fan_state(value, speed) ==
    IF ~InList(value, STATE_VALUES) THEN <<>>
    ELSE IF value = "off" THEN <<1>>
    ELSE IF PrevWasOff(speed) THEN <<2>> ELSE <<>>

\* Variant of Dispatch: a speed command records the requested speed in the
\* handler's cache.
Dispatch_CachesSpeed(topic, value) ==
    /\ pc = "loop"
    /\ cmd' = [topic |-> topic, payload |-> value,
               calls |-> IF topic = TOPIC_SET_FAN_SPEED THEN handle_set_speed(value)
                         ELSE handle_set_fan_state(value, cache[h].speed)]
    /\ inv' = Forget(inv)
    /\ cache' = Collect(IF topic = TOPIC_SET_FAN_SPEED /\ InList(value, SPEED_VALUES)
                        THEN [cache EXCEPT ![h].speed = value] ELSE cache,
                        Live(h, inv'))
    /\ UNCHANGED <<pc, h, attached, fails, alog>>

\* `async for message in messages` (lines 301-304): the next message is
\* dispatched by topic; the command handlers write nothing.
Dispatch(topic, value) ==
    /\ pc = "loop"
    /\ cmd' = [topic |-> topic, payload |-> value,
               calls |-> IF topic = TOPIC_SET_FAN_SPEED THEN handle_set_speed(value)
                         ELSE handle_set_fan_state(value, cache[h].speed)]
    /\ inv' = Forget(inv)
    /\ cache' = Collect(cache, Live(h, inv'))
    /\ UNCHANGED <<pc, h, attached, fails, alog>>

\* the message iteration raises MqttError (the connection is lost)
LoopError ==
    /\ pc = "loop"
    /\ RaiseMqttError

Supervisor ==
    \/ Begin
    \/ Connect
    \/ \E i \in 1..Len(CfgPc) : send_ha_config(i)
    \/ Online
    \/ \E i \in 1..Len(SubPc) : Subscribe(i)
    \/ \E i \in 1..Len(CommandTopics), value \in Payloads : Dispatch(CommandTopics[i], value)
    \/ LoopError

\* ------------------------------------------------- the device listeners
\* The ComfoAir object calls a registered listener for each event and awaits
\* it before the next; an event with no listener registered is dropped.

\* A listener call on handler x begins.  preSpeed and preState remember the
\* speed and the state that fan_speed_mode finds cached at its entry.
Start(kind, x, num, data) ==
    [h |-> x, kind |-> kind, pc |-> "idle", num |-> num, data |-> data, speed |-> "",
     preSpeed |-> IF kind = "fan_speed_mode" THEN cache[x].speed ELSE None,
     preState |-> IF kind = "fan_speed_mode" THEN cache[x].state ELSE None,
     logged |-> FALSE, dec |-> "", out |-> <<>>, res |-> "ok"]

\* ComfoAirHandler.event(ev) with ev = (command, data) (lines 139-148): no await
event(x, command, data) ==
    /\ inv.pc = "idle"
    /\ x \in attached
    /\ IF cache[x].raw[command] = <<data>>
       THEN /\ inv' = [Start("event", x, command, data) EXCEPT !.res = "unchanged"]
            /\ cache' = Collect(cache, Live(h, inv'))
       ELSE LET d == IF command = CMD_DISPLAY THEN decode_display_data(data).status ELSE ""
            IN /\ inv' = [Start("event", x, command, data) EXCEPT
                             !.logged = TRUE, !.dec = d,
                             !.res = IF d = "assert" THEN "AssertionError" ELSE "ok"]
               /\ cache' = Collect([cache EXCEPT ![x].raw[command] = <<data>>], Live(h, inv'))
    /\ cmd' = NoCommand
    /\ UNCHANGED <<pc, h, attached, fails, alog>>

\* the topic each of the three plain attribute listeners publishes on
AttrTopic(kind) ==
    IF kind = "temp_outside_event" THEN TOPIC_TEMP_OUTSIDE
    ELSE IF kind = "airflow_exhaust" THEN TOPIC_AIRFLOW_EXHAUST
    ELSE TOPIC_AIRFLOW_SUPPLY

\* the two log lines of an attribute listener, up to its await of publish
AttrEnter(kind, x, value) ==
    /\ inv.pc = "idle"
    /\ x \in attached
    /\ inv' = [Start(kind, x, value, <<>>) EXCEPT !.pc = "publish", !.logged = TRUE]
    /\ cache' = Collect(cache, Live(h, inv'))
    /\ cmd' = NoCommand
    /\ UNCHANGED <<pc, h, attached, fails, alog>>

\* temp_outside_event(attribute, value) (lines 150-153)
temp_outside_event(x, value) == AttrEnter("temp_outside_event", x, value)

\* airflow_exhaust(attribute, value) (lines 155-158)
airflow_exhaust(x, value) == AttrEnter("airflow_exhaust", x, value)

\* airflow_supply(attribute, value) (lines 160-163)
airflow_supply(x, value) == AttrEnter("airflow_supply", x, value)

\* The listener call in progress ends: res is "ok" or the exception raised.
Finish(iv, res) == [iv EXCEPT !.pc = "idle", !.res = res]

\* `await self._mqtt.publish(TOPIC, value)` of an attribute listener returns
\* or raises MqttError
AttrPublish ==
    /\ inv.pc = "publish"
    /\ \/ inv' = Finish([inv EXCEPT !.out = Append(@, Pub(AttrTopic(inv.kind), ToString(inv.num), FALSE))], "ok")
       \/ inv' = Finish(inv, "MqttError")
    /\ cache' = Collect(cache, Live(h, inv'))
    /\ cmd' = NoCommand
    /\ UNCHANGED <<pc, h, attached, fails, alog>>

\* Variant of FanBranch: "off" is announced only on the falling edge.
FanBranch_OffEdge(speed, cached) ==
    IF speed = "off" THEN (IF cached = "off" THEN "auto" ELSE "off")
    ELSE IF speed # "auto" THEN (IF PrevWasOff(cached) THEN "rising" ELSE "running")
    ELSE "auto"

\* Variant of FanBranch: `elif speed != "auto"` reads `else`.
FanBranch_AutoPublished(speed, cached) ==
    IF speed = "off" THEN "off"
    ELSE IF PrevWasOff(cached) THEN "rising" ELSE "running"

\* The branch fan_speed_mode takes (lines 168, 172, 173) for the resolved
\* speed and the speed it finds cached.
FanBranch(speed, cached) ==
    IF speed = "off" THEN "off"
    ELSE IF speed # "auto" THEN (IF PrevWasOff(cached) THEN "rising" ELSE "running")
    ELSE "auto"

\* fan_speed_mode(attribute, value) from its entry to its first await, or to
\* its end when it awaits nothing (lines 166-170, 172-175, 179)
fan_speed_mode(x, value) ==
    /\ inv.pc = "idle"
    /\ x \in attached
    /\ LET speed == SpeedLookup(value)
           st == [Start("fan_speed_mode", x, value, <<>>) EXCEPT !.logged = TRUE, !.speed = speed]
           branch == FanBranch(speed, cache[x].speed)
       IN IF speed = "IndexError"
          THEN /\ inv' = Finish([st EXCEPT !.speed = ""], "IndexError")
               /\ cache' = Collect(cache, Live(h, inv'))
          ELSE IF branch = "off"
          THEN /\ inv' = [st EXCEPT !.pc = "pub_state"]
               /\ cache' = Collect([cache EXCEPT ![x].state = "off"], Live(h, inv'))
          ELSE IF branch = "rising"
          THEN /\ inv' = [st EXCEPT !.pc = "pub_state"]
               /\ cache' = Collect([cache EXCEPT ![x].state = "on"], Live(h, inv'))
          ELSE IF branch = "running"
          THEN /\ inv' = [st EXCEPT !.pc = "pub_speed"]
               /\ cache' = Collect(cache, Live(h, inv'))
          ELSE /\ inv' = Finish(st, "ok")
               /\ cache' = Collect([cache EXCEPT ![x].speed = speed], Live(h, inv'))
    /\ cmd' = NoCommand
    /\ UNCHANGED <<pc, h, attached, fails, alog>>

\* `await self._mqtt.publish(TOPIC_FAN_STATE, ..., retain=True)` (lines 171,
\* 176) returns or raises; after "off" the speed is cached (line 179)
FanPublishState ==
    /\ inv.pc = "pub_state"
    /\ \/ LET payload == IF inv.speed = "off" THEN "off" ELSE "on"
              published == [inv EXCEPT !.out = Append(@, Pub(TOPIC_FAN_STATE, payload, TRUE))]
          IN IF inv.speed = "off"
             THEN /\ inv' = Finish(published, "ok")
                  /\ cache' = Collect([cache EXCEPT ![inv.h].speed = inv.speed], Live(h, inv'))
             ELSE /\ inv' = [published EXCEPT !.pc = "pub_speed"]
                  /\ cache' = cache
       \/ /\ inv' = Finish(inv, "MqttError")
          /\ cache' = Collect(cache, Live(h, inv'))
    /\ cmd' = NoCommand
    /\ UNCHANGED <<pc, h, attached, fails, alog>>

\* Variant of FanPublishSpeed: the speed is not cached after the publication.
FanPublishSpeed_NoCacheWrite ==
    /\ inv.pc = "pub_speed"
    /\ \/ inv' = Finish([inv EXCEPT !.out = Append(@, Pub(TOPIC_FAN_SPEED, inv.speed, FALSE))], "ok")
       \/ inv' = Finish(inv, "MqttError")
    /\ cache' = Collect(cache, Live(h, inv'))
    /\ cmd' = NoCommand
    /\ UNCHANGED <<pc, h, attached, fails, alog>>

\* `await self._mqtt.publish(TOPIC_FAN_SPEED, speed)` (line 178) returns or
\* raises; on return the speed is cached (line 179)
FanPublishSpeed ==
    /\ inv.pc = "pub_speed"
    /\ \/ /\ inv' = Finish([inv EXCEPT !.out = Append(@, Pub(TOPIC_FAN_SPEED, inv.speed, FALSE))], "ok")
          /\ cache' = Collect([cache EXCEPT ![inv.h].speed = inv.speed], Live(h, inv'))
       \/ /\ inv' = Finish(inv, "MqttError")
          /\ cache' = Collect(cache, Live(h, inv'))
    /\ cmd' = NoCommand
    /\ UNCHANGED <<pc, h, attached, fails, alog>>

\* cooked_event(attribute, value) (lines 181-182): one log line
cooked_event(x, value) ==
    /\ inv.pc = "idle"
    /\ x \in attached
    /\ inv' = [Start("cooked_event", x, value, <<>>) EXCEPT !.logged = TRUE]
    /\ cache' = Collect(cache, Live(h, inv'))
    /\ cmd' = NoCommand
    /\ UNCHANGED <<pc, h, attached, fails, alog>>

Device ==
    \/ \E x \in Handlers, command \in Cmds : \E data \in Frames(command) : event(x, command, data)
    \/ \E x \in Handlers, value \in TempValues : temp_outside_event(x, value)
    \/ \E x \in Handlers, value \in AirflowValues : airflow_exhaust(x, value)
    \/ \E x \in Handlers, value \in AirflowValues : airflow_supply(x, value)
    \/ \E x \in Handlers, value \in TempValues : cooked_event(x, value)
    \/ \E x \in Handlers, value \in RawSpeeds : fan_speed_mode(x, value)
    \/ AttrPublish
    \/ FanPublishState
    \/ FanPublishSpeed

Next == Supervisor \/ Device

Spec == Init /\ [][Next]_vars

\* The steps mqtt_connection takes by itself: an awaited connect, publish or
\* subscribe returns or raises (asyncio_mqtt gives each a timeout), and
\* asyncio.sleep returns.  The arrival of an inbound message and the loss of
\* the connection in the inbound loop are up to the environment.
SupervisorProgress ==
    \/ Begin
    \/ Connect
    \/ \E i \in 1..Len(CfgPc) : send_ha_config(i)
    \/ Online
    \/ \E i \in 1..Len(SubPc) : Subscribe(i)

FairSpec == Spec /\ WF_vars(SupervisorProgress)

\* ------------------------------------------- decode_display_data alone
\* The decoder called directly, twice in a row, on one input: frames shorter
\* than the table, frames of the table's length that differ from the blank
\* display in one cell, and those frames with a cell dropped or added.
\* Here inv.out holds the labels of the call, not publications.

\* longest of the short frames
MaxShort == 2

\* byte values: no bit, a bit that is no digit, digit "1", digit "0", all bits
DecodeBytes == {0, 1, 6, 63, 255}

ShortInputs == UNION {[1..n -> DecodeBytes] : n \in 0..MaxShort}

FullInputs == {[FrameBlank EXCEPT ![i] = b] : i \in 1..Len(FrameBlank), b \in DecodeBytes}

DecodeInputs ==
    ShortInputs \cup FullInputs
        \cup {SubSeq(f, 1, Len(f) - 1) : f \in FullInputs}
        \cup {Append(f, b) : f \in FullInputs, b \in DecodeBytes}

DecodeInit ==
    /\ pc = "top"
    /\ h = 0
    /\ attached = {}
    /\ cache = [x \in Handlers |-> EmptyCache]
    /\ fails = 0
    /\ alog = <<>>
    /\ cmd = NoCommand
    /\ \E data \in DecodeInputs :
           inv = [NoInvocation EXCEPT !.kind = "decode", !.pc = "call", !.data = data]

\* one call decode_display_data(inv.data): its labels are logged when it
\* reaches line 124, an AssertionError leaves it before
Decode ==
    /\ inv.kind = "decode"
    /\ inv.pc \in {"call", "again"}
    /\ LET r == decode_display_data(inv.data)
       IN inv' = [inv EXCEPT !.pc = IF inv.pc = "call" THEN "again" ELSE "idle",
                             !.dec = r.status,
                             !.out = r.segments,
                             !.logged = (r.status = "ok"),
                             !.res = IF r.status = "assert" THEN "AssertionError" ELSE "ok"]
    /\ UNCHANGED <<pc, h, attached, cache, fails, alog, cmd>>

DecodeNext == Decode

DecodeSpec == DecodeInit /\ [][DecodeNext]_vars

\* ====================================================== the properties
\* number of publications in out on topic with payload
CountPub(out, topic, payload) ==
    Cardinality({i \in 1..Len(out) : out[i].topic = topic /\ out[i].payload = payload})

\* number of publications in out on topic
CountTopic(out, topic) == Cardinality({i \in 1..Len(out) : out[i].topic = topic})

RunningSpeeds == {"low", "medium", "high"}

\* a fan_speed_mode call that has returned normally
FanReturned == inv.kind = "fan_speed_mode" /\ inv.pc = "idle" /\ inv.res = "ok"

\* C1: a fan-speed event publishes state "on" exactly when it resolves to
\* low, medium or high and the speed cached before it was absent or "off";
\* every event that resolves to low, medium or high publishes its speed
\* exactly once on the fan-speed topic.  While a call is still suspended, or
\* after a publish raised, no "on" is published outside that case.
C1_StateOnEdge ==
    inv.kind = "fan_speed_mode" =>
        /\ CountPub(inv.out, TOPIC_FAN_STATE, "on") > 0
               => inv.speed \in RunningSpeeds /\ inv.preSpeed \in {None, "off"}
        /\ FanReturned =>
               /\ CountPub(inv.out, TOPIC_FAN_STATE, "on")
                      = (IF inv.speed \in RunningSpeeds /\ inv.preSpeed \in {None, "off"} THEN 1 ELSE 0)
               /\ CountTopic(inv.out, TOPIC_FAN_SPEED)
                      = (IF inv.speed \in RunningSpeeds THEN 1 ELSE 0)
               /\ CountPub(inv.out, TOPIC_FAN_SPEED, inv.speed) = CountTopic(inv.out, TOPIC_FAN_SPEED)

\* off, low: state "on" once, then speed "low" once
C1_Witness_OffLow ==
    /\ FanReturned /\ inv.num = 2 /\ inv.preSpeed = "off"
    /\ inv.out = <<Pub(TOPIC_FAN_STATE, "on", TRUE), Pub(TOPIC_FAN_SPEED, "low", FALSE)>>

\* C2 (as claimed): an event whose value equals the value cached for its key
\* publishes nothing, and an event whose value differs from it, or whose key
\* is not cached, is processed once.  The key of a raw frame is its command
\* byte, the key of a fan-speed event is "speed"; the handler caches nothing
\* for the other attributes.
C2_DedupEveryEvent ==
    inv.pc = "idle" =>
        /\ inv.kind = "event" =>
               /\ inv.res = "unchanged" => ~inv.logged /\ inv.dec = "" /\ inv.out = <<>>
               /\ inv.res # "unchanged" => inv.logged
        /\ inv.kind = "fan_speed_mode" /\ inv.res = "ok" =>
               /\ inv.speed = inv.preSpeed => inv.out = <<>>
               /\ inv.speed # inv.preSpeed => inv.logged
        /\ inv.kind \in {"temp_outside_event", "airflow_exhaust", "airflow_supply"} /\ inv.res = "ok" =>
               Len(inv.out) = 1

\* C3: on the state-set topic "off" makes exactly the call set_speed(1)
\* whatever speed is cached; "on" makes exactly the call set_speed(2) when
\* the cached speed is absent or "off" and no call otherwise; nothing else
\* makes a call.
C3_SetFanState ==
    cmd.topic = TOPIC_SET_FAN_STATE =>
        cmd.calls = (IF cmd.payload = "off" THEN <<1>>
                     ELSE IF cmd.payload = "on" /\ cache[h].speed \in {None, "off"} THEN <<2>>
                     ELSE <<>>)

\* "off" while the cached speed is "medium"
C3_Witness_OffWhileMedium ==
    /\ cmd.topic = TOPIC_SET_FAN_STATE /\ cmd.payload = "off"
    /\ cache[h].speed = "medium" /\ cmd.calls = <<1>>

\* C4: a payload outside the topic's vocabulary makes no set_speed call;
\* on the speed-set topic off, low, medium, high make exactly one call with
\* 1, 2, 3, 4 and "auto" makes none; every argument is within 1..4.
C4_Vocabulary ==
    /\ \A i \in 1..Len(cmd.calls) : cmd.calls[i] \in 1..4
    /\ cmd.topic = TOPIC_SET_FAN_SPEED =>
           cmd.calls = (IF cmd.payload = "off" THEN <<1>>
                        ELSE IF cmd.payload = "low" THEN <<2>>
                        ELSE IF cmd.payload = "medium" THEN <<3>>
                        ELSE IF cmd.payload = "high" THEN <<4>>
                        ELSE <<>>)
    /\ cmd.topic = TOPIC_SET_FAN_STATE /\ cmd.payload \notin {"on", "off"} => cmd.calls = <<>>

\* a payload outside the vocabulary was dispatched on the speed-set topic
C4_Witness_Rejected ==
    cmd.topic = TOPIC_SET_FAN_SPEED /\ cmd.payload = "bogus" /\ cmd.calls = <<>>

\* the step that publishes "Online", and the step that registers the listeners
OnlineStep == Step("publish", TOPIC_AVAILABILITY, "Online", TRUE)
AttachStep == Step("add_ca_listeners", "", "", FALSE)

InLog(step) == \E i \in 1..Len(alog) : alog[i] = step

C7_FreshCachePerAttempt ==
    [][ /\ (attached' # attached /\ attached' # {})
            => \A x \in attached' : cache'[x] = EmptyCache
        /\ (inv' # inv /\ inv.pc = "idle" /\ inv'.kind = "event"
                /\ cache[inv'.h].raw[inv'.num] = <<>>)
            => inv'.logged /\ cache'[inv'.h].raw[inv'.num] = <<inv'.data>> ]_vars

\* after a reconnect the second handler has processed a raw frame
C7_Witness_FirstEventAfterReconnect ==
    /\ fails >= 1 /\ h >= 2 /\ attached = {h}
    /\ inv.h = h /\ inv.kind = "event" /\ inv.logged
    /\ cache[h].raw[inv.num] = <<inv.data>>

\* the steps of one attempt, in the order claimed
C8_Order == <<
    Step("will_set", TOPIC_AVAILABILITY, "Offline", TRUE),
    Step("connect", "", "", FALSE),
    Step("publish", "homeassistant/fan/ComfoAir/config", "json(fan)", FALSE),
    Step("publish", "homeassistant/sensor/ComfoAir_temp/config", "json(temp_outside_sensor)", FALSE),
    Step("publish", "homeassistant/sensor/ComfoAir_airflow_supply/config", "json(airflow_supply)", FALSE),
    Step("publish", "homeassistant/sensor/ComfoAir_airflow_exhaust/config", "json(airflow_exhaust)", FALSE),
    Step("publish", TOPIC_AVAILABILITY, "Online", TRUE),
    Step("add_ca_listeners", "", "", FALSE),
    Step("subscribe", TOPIC_SET_FAN_SPEED, "", FALSE),
    Step("subscribe", TOPIC_SET_FAN_STATE, "", FALSE) >>

\* C8: the steps of an attempt occur in the order will, connect, the four
\* configuration documents, "Online", listeners, the two subscriptions; the
\* current handler publishes a device event only after "Online", and a
\* command is dispatched only after both subscriptions.
C8_AttemptOrder ==
    /\ Len(alog) <= Len(C8_Order)
    /\ \A i \in 1..Len(alog) : alog[i] = C8_Order[i]
    /\ (attached # {} \/ (inv.h = h /\ h # 0)) => InLog(OnlineStep)
    /\ (cmd # NoCommand \/ pc = "loop") => alog = C8_Order

\* a command was dispatched at the end of a complete attempt
C8_Witness_Dispatched ==
    pc = "loop" /\ cmd.topic = TOPIC_SET_FAN_STATE /\ cmd.payload = "on" /\ alog = C8_Order

\* a step of the device task that begins a fan_speed_mode call
FanBegins == inv.pc = "idle" /\ inv' # inv /\ inv'.kind = "fan_speed_mode" /\ inv'.res # "IndexError"

\* C9: a fan-speed event that resolves to "off" caches state "off" and awaits
\* the retained publication of state "off" whatever speed is cached; when it
\* returns it has published exactly that and the cached speed is "off".  An
\* event that resolves to another speed never publishes state "off" and never
\* turns the cached state to "off".
C9_OffIffSpeedOff ==
    [][ /\ (FanBegins /\ inv'.speed = "off")
            => inv'.pc = "pub_state" /\ cache'[inv'.h].state = "off"
        /\ (FanReturned /\ inv.speed = "off")'
            => /\ inv'.out = <<Pub(TOPIC_FAN_STATE, "off", TRUE)>>
               /\ cache'[inv'.h].speed = "off"
        /\ (inv'.kind = "fan_speed_mode" /\ inv'.speed # "off" /\ inv' # inv)
            => /\ CountPub(inv'.out, TOPIC_FAN_STATE, "off") = 0
               /\ cache'[inv'.h].state = "off" => cache[inv'.h].state = "off" ]_vars

\* "off" arrived while the cached speed was already "off" and was published
C9_Witness_OffWhileOff ==
    /\ FanReturned /\ inv.speed = "off" /\ inv.preSpeed = "off"
    /\ inv.out = <<Pub(TOPIC_FAN_STATE, "off", TRUE)>> /\ cache[inv.h].speed = "off"

\* C10: a fan-speed event with raw value 0 returns without a publication,
\* leaves the cached state as it was and caches the speed "auto".
C10_AutoSilent ==
    [][ (FanBegins /\ inv'.num = 0)
            => /\ inv'.pc = "idle" /\ inv'.res = "ok" /\ inv'.out = <<>>
               /\ cache'[inv'.h].state = cache[inv'.h].state
               /\ cache'[inv'.h].speed = "auto" ]_vars

\* raw value 0 arrived while the fan ran at "low" with state "on"
C10_Witness_AutoAfterLow ==
    /\ FanReturned /\ inv.num = 0 /\ inv.preSpeed = "low" /\ inv.out = <<>>
    /\ cache[inv.h].speed = "auto" /\ cache[inv.h].state = "on"

\* the bridged state: listeners registered, inbound loop running
Bridged == pc = "loop" /\ attached = {h}

\* C6: after every handled MqttError a new attempt starts, and whenever the
\* supervisor is not in the inbound loop it gets there, bridged, once the
\* MqttErrors stop (there are at most MaxFails of them).
C6_RetriesForever ==
    /\ (pc = "sleep") ~> (pc = "connect")
    /\ (pc # "loop") ~> Bridged

\* bridged again after MaxFails handled errors
C6_Witness_BridgedAfterErrors == Bridged /\ fails >= 2 /\ h = fails + 1

\* a fan_speed_mode call on the rising edge: low, medium or high while the
\* cached speed was absent or "off"
FanRising == inv.kind = "fan_speed_mode" /\ inv.speed \in RunningSpeeds /\ inv.preSpeed \in {None, "off"}

\* C11: on the rising edge fan_speed_mode publishes state "on" retained
\* strictly before the speed unretained: nothing is published while it awaits
\* the state publication, only the state while it awaits the speed
\* publication, and when it has returned it has published the state, then the
\* speed, and the cached speed is the newly resolved speed.
C11_OnBeforeSpeed ==
    FanRising =>
        /\ inv.pc = "pub_state" => inv.out = <<>>
        /\ inv.pc = "pub_speed" => inv.out = <<Pub(TOPIC_FAN_STATE, "on", TRUE)>>
        /\ FanReturned =>
               /\ inv.out = <<Pub(TOPIC_FAN_STATE, "on", TRUE), Pub(TOPIC_FAN_SPEED, inv.speed, FALSE)>>
               /\ cache[inv.h].speed = inv.speed

\* raw value 2 arrived while the cached speed was "off": the cached speed is
\* "low" after the two publications
C11_Witness_LowCachedAfterOff ==
    /\ FanRising /\ FanReturned /\ inv.num = 2 /\ inv.preSpeed = "off"
    /\ Len(inv.out) = 2 /\ inv.out[1].retain /\ ~inv.out[2].retain
    /\ cache[inv.h].speed = "low" /\ cache[inv.h].state = "on"

\* C12 (as claimed): a fan-speed event whose raw value is outside 0..4 is
\* rejected before the lookup: the call returns without raising, resolves to
\* no speed, publishes and awaits nothing and leaves the handler's cache as
\* it was.
C12_OutOfRangeRejected ==
    [][ (inv.pc = "idle" /\ inv' # inv /\ inv'.kind = "fan_speed_mode" /\ inv'.num \notin 0..4)
            => /\ inv'.pc = "idle" /\ inv'.res = "ok"
               /\ inv'.speed = "" /\ inv'.out = <<>>
               /\ cache'[inv'.h] = cache[inv'.h] ]_vars

\* C13: the dispatch of an inbound command, whatever its topic and payload,
\* leaves the cache of the handler as it was; an entry of a handler's cache
\* changes only in a step of an event or fan_speed_mode call of that handler
\* (or when the handler is dropped).
C13_CommandsWriteNothing ==
    [][ /\ cmd' # NoCommand => h' = h /\ cache'[h] = cache[h]
        /\ \A x \in Handlers :
               (cache'[x] # cache[x] /\ cache'[x] # EmptyCache)
                   => inv' # inv /\ inv'.h = x /\ inv'.kind \in {"event", "fan_speed_mode"} ]_vars

\* "high" was requested on the speed-set topic while "off" was cached: the
\* call is made, the cache still says "off"
C13_Witness_HighWhileOff ==
    /\ cmd.topic = TOPIC_SET_FAN_SPEED /\ cmd.payload = "high" /\ cmd.calls = <<4>>
    /\ cache[h].speed = "off" /\ cache[h].state = "off"

\* the listeners that await a publish
PublishingListeners == {"temp_outside_event", "airflow_exhaust", "airflow_supply", "fan_speed_mode"}

\* C14 (as claimed): when a publish awaited by a device listener raises
\* MqttError, the error is handled as one raised in mqtt_connection's own
\* steps is: the except clause runs, the listeners of the current handler are
\* removed and the supervisor waits the backoff before a new attempt.
C14_ListenerFailureReconnects ==
    [][ (inv' # inv /\ inv'.pc = "idle" /\ inv'.res = "MqttError" /\ inv'.kind \in PublishingListeners)
            => pc' = "sleep" /\ fails' = fails + 1 /\ h \notin attached' ]_vars

\* C15 (as claimed): a display frame of the table's length with a digit
\* pattern that is no character fails to decode, explicitly, and the failure
\* stays inside the frame: the event call that received it returns normally.
C15_DecodeFailureIsolated ==
    (inv.kind = "event" /\ inv.pc = "idle" /\ inv.logged /\ inv.num = CMD_DISPLAY
         /\ decode_display_data(inv.data).status = "assert")
        => inv.dec = "assert" /\ inv.res = "ok"

C17_OnIsNoOpWhileRunning ==
    (cmd.topic = TOPIC_SET_FAN_STATE /\ cmd.payload = "on" /\ cmd.calls = <<2>>) =>
        IF inv.kind = "fan_speed_mode" /\ inv.h = h /\ inv.pc # "idle"
        THEN inv.speed = "off"
        ELSE cache[h].speed \in {None, "off"}

\* C18 (as claimed): when a fan-speed event that resolved to low, medium or
\* high has returned, the handler's cached state, which is the state it
\* published last, is "on".
C18_StateFollowsSpeed ==
    (FanReturned /\ inv.num \in 0..4 /\ inv.speed \in RunningSpeeds) => cache[inv.h].state = "on"

\* C19 (as claimed): whenever the except clause runs remove_ca_listeners(ca, h)
\* the listeners of h are registered, and were registered in this attempt.
C19_RemoveOnlyAttached ==
    [][ fails' = fails + 1 => h \in attached /\ InLog(AttachStep) ]_vars

\* the state fan_speed_mode caches for an event: "off" for speed "off", "on"
\* on the rising edge, otherwise the state that was cached
StateFor(speed, preSpeed, preState) ==
    IF speed = "off" THEN "off"
    ELSE IF speed \in RunningSpeeds /\ preSpeed \in {None, "off"} THEN "on"
    ELSE preState

\* C20 (as claimed): after a fan_speed_mode call that a publish ended with
\* MqttError the cached speed and the cached state are both as they were
\* before the event, or both are the event's.
C20_NoHalfUpdate ==
    (inv.kind = "fan_speed_mode" /\ inv.pc = "idle" /\ inv.res = "MqttError") =>
        \/ cache[inv.h].speed = inv.preSpeed /\ cache[inv.h].state = inv.preState
        \/ /\ cache[inv.h].speed = inv.speed
           /\ cache[inv.h].state = StateFor(inv.speed, inv.preSpeed, inv.preState)

====
